---- MODULE Spec2Model ----
(***************************************************************************)
(* Model of scripts/auth-login.py: main(args=sys.argv) selects one of two  *)
(* fixed URLs from args[1], POSTs a fixed JSON payload through a scoped    *)
(* httpx.Client, and the __main__ block pretty-prints the value returned.  *)
(* One action per statement of the script; the program counter pc names    *)
(* the source line about to execute.  Python indices are 0-based, TLA+     *)
(* sequences 1-based: Python args[i] is args[i + 1] here.                  *)
(***************************************************************************)
EXTENDS Integers, Sequences, FiniteSets, TLC

\* Longest argument vector explored.
MaxArgs == 3

\* Words an argument vector is built from: a script name, the two
\* recognized sub-commands and an unrecognized one.
ArgValues == {"auth-login.py", "register", "login", "reset"}

RECURSIVE SeqsUpTo(_, _)
SeqsUpTo(S, n) ==
    IF n = 0 THEN {<<>>}
    ELSE LET shorter == SeqsUpTo(S, n - 1)
         IN  shorter \cup {Append(s, x) : s \in {t \in shorter : Len(t) = n - 1}, x \in S}

ArgVectors == SeqsUpTo(ArgValues, MaxArgs)

\* ---- literals of the script ------------------------------------------------

RegisterUrl == "http://localhost:3001/api/auth/register"
LoginUrl == "http://localhost:3001/api/auth/login"

PayloadLiteralWrongPassword ==
    [email |-> "joeblackwaslike@me.com", password |-> "Prosperis123"]

PayloadLiteral ==
    [email |-> "joeblackwaslike@me.com", password |-> "Prosperis123!"]

\* ---- values of locals that are not bound yet -------------------------------

UnboundUrl == "<unbound>"
UnboundPayload == [email |-> "<unbound>", password |-> "<unbound>"]
UnboundResponse == [status_code |-> -1, text |-> "<unbound>"]
None == [type |-> "NoneType", items |-> <<>>]

\* ---- the server, as seen through httpx -------------------------------------

StatusCodes == {200, 201, 302, 401, 500}

Bodies == {"{\"token\": \"abc\"}", "{\"error\": \"bad credentials\"}", "[]", "<html>"}

Responses == [status_code : StatusCodes, text : Bodies]

\* Response.json(): the texts that parse, and what they parse to.
IsJson(text) == text \in {"{\"token\": \"abc\"}", "{\"error\": \"bad credentials\"}", "[]"}

JsonDecode(text) ==
    CASE text = "{\"token\": \"abc\"}" ->
           [type |-> "dict", items |-> << <<"token", "abc">> >>]
      [] text = "{\"error\": \"bad credentials\"}" ->
           [type |-> "dict", items |-> << <<"error", "bad credentials">> >>]
      [] text = "[]" ->
           [type |-> "list", items |-> <<>>]

\* Response.raise_for_status(): the set of outcomes (TRUE = raises).  2xx
\* never raises, 4xx and 5xx always raise; for other classes it depends on
\* the installed httpx release (the dependency is unpinned).
RaisesOnNot200(status) ==
    IF status = 200 THEN {FALSE} ELSE {TRUE}

RaisesOnServerErrorOnly(status) ==
    IF status \div 100 = 2 THEN {FALSE}
    ELSE IF status \div 100 = 5 THEN {TRUE}
    ELSE {FALSE}

RaisesOn(status) ==
    IF status \div 100 = 2 THEN {FALSE}
    ELSE IF status \div 100 \in {4, 5} THEN {TRUE}
    ELSE {TRUE, FALSE}

\* ---- the match statement ---------------------------------------------------

\* match args[1]: a matching case binds url; with no matching case the
\* statement falls through and url keeps its current (unbound) value.
SelectUrlRegisterAsLogin(cmd, cur) ==
    CASE cmd = "register" -> LoginUrl
      [] cmd = "login" -> LoginUrl
      [] OTHER -> cur

SelectUrlLoginAsRegister(cmd, cur) ==
    CASE cmd = "register" -> RegisterUrl
      [] cmd = "login" -> RegisterUrl
      [] OTHER -> cur

SelectUrlDefaultLogin(cmd, cur) ==
    CASE cmd = "register" -> RegisterUrl
      [] cmd = "login" -> LoginUrl
      [] OTHER -> LoginUrl

SelectUrlDefaultRegister(cmd, cur) ==
    CASE cmd = "register" -> RegisterUrl
      [] cmd = "login" -> LoginUrl
      [] OTHER -> RegisterUrl

SelectUrl(cmd, cur) ==
    CASE cmd = "register" -> RegisterUrl
      [] cmd = "login" -> LoginUrl
      [] OTHER -> cur

\* ---- state ------------------------------------------------------------------

VARIABLES
    argv,        \* the argument vector the process was invoked with
    args,        \* main's parameter (the list object, mutated by append)
    pc,          \* source line about to execute
    payload,     \* local payload
    url,         \* local url
    client,      \* "none" | "open" | "closed"
    requests,    \* requests handed to the network, in order
    r,           \* local r, the response
    exc,         \* exception in flight, "none" if none
    ret,         \* value returned by main
    stdout,      \* values printed by pprint, in order
    exit_status  \* process exit status, -1 while running

vars == <<argv, args, pc, payload, url, client, requests, r, exc, ret,
          stdout, exit_status>>

Init ==
    /\ argv \in ArgVectors
    /\ args = argv
    /\ pc = "l13"
    /\ payload = UnboundPayload
    /\ url = UnboundUrl
    /\ client = "none"
    /\ requests = <<>>
    /\ r = UnboundResponse
    /\ exc = "none"
    /\ ret = None
    /\ stdout = <<>>
    /\ exit_status = -1

\* ---- main ---------------------------------------------------------------------

\* lines 13-16: payload = {...}
BuildPayload ==
    /\ pc = "l13"
    /\ payload' = PayloadLiteral
    /\ pc' = "l18"
    /\ UNCHANGED <<argv, args, url, client, requests, r, exc, ret, stdout, exit_status>>

\* lines 18-19: if len(args) == 0: args.append("login")
DefaultCommand ==
    /\ pc = "l18"
    /\ args' = IF Len(args) = 0 THEN Append(args, "login") ELSE args
    /\ pc' = "l21"
    /\ UNCHANGED <<argv, payload, url, client, requests, r, exc, ret, stdout, exit_status>>

\* lines 21-25: match args[1].  Subscripting a list shorter than 2 raises
\* IndexError, which leaves main.
MatchCommand ==
    /\ pc = "l21"
    /\ IF Len(args) < 2
       THEN /\ exc' = "IndexError"
            /\ pc' = "crash"
            /\ url' = url
       ELSE /\ url' = SelectUrl(args[2], url)
            /\ pc' = "l27"
            /\ exc' = exc
    /\ UNCHANGED <<argv, args, payload, client, requests, r, ret, stdout, exit_status>>

\* line 27: with httpx.Client() as client
EnterClient ==
    /\ pc = "l27"
    /\ client' = "open"
    /\ pc' = "l28"
    /\ UNCHANGED <<argv, args, payload, url, requests, r, exc, ret, stdout, exit_status>>

\* lines 28-31: r = client.post(url, json=payload).  Evaluating the unbound
\* local url raises UnboundLocalError before the call; otherwise the request
\* goes out and either a response comes back or the transport fails.
PostTwice ==
    /\ pc = "l28"
    /\ IF url = UnboundUrl
       THEN /\ exc' = "UnboundLocalError"
            /\ pc' = "with_exit"
            /\ UNCHANGED <<requests, r>>
       ELSE /\ requests' = requests \o
                   << [method |-> "POST", url |-> url, json |-> payload],
                      [method |-> "POST", url |-> url, json |-> payload] >>
            /\ \/ /\ exc' = "ConnectError"
                  /\ pc' = "with_exit"
                  /\ r' = r
               \/ /\ r' \in Responses
                  /\ pc' = "l32"
                  /\ exc' = exc
    /\ UNCHANGED <<argv, args, payload, url, client, ret, stdout, exit_status>>

Post ==
    /\ pc = "l28"
    /\ IF url = UnboundUrl
       THEN /\ exc' = "UnboundLocalError"
            /\ pc' = "with_exit"
            /\ UNCHANGED <<requests, r>>
       ELSE /\ requests' = Append(requests,
                   [method |-> "POST", url |-> url, json |-> payload])
            /\ \/ /\ exc' = "ConnectError"
                  /\ pc' = "with_exit"
                  /\ r' = r
               \/ /\ r' \in Responses
                  /\ pc' = "l32"
                  /\ exc' = exc
    /\ UNCHANGED <<argv, args, payload, url, client, ret, stdout, exit_status>>

\* line 32: r.raise_for_status()
RaiseForStatus ==
    /\ pc = "l32"
    /\ \E raises \in RaisesOn(r.status_code) :
          IF raises
          THEN /\ exc' = "HTTPStatusError"
               /\ pc' = "with_exit"
          ELSE /\ exc' = exc
               /\ pc' = "l33"
    /\ UNCHANGED <<argv, args, payload, url, client, requests, r, ret, stdout, exit_status>>

\* line 33: return r.json()
ReturnJson ==
    /\ pc = "l33"
    /\ IF IsJson(r.text)
       THEN /\ ret' = JsonDecode(r.text)
            /\ exc' = exc
       ELSE /\ exc' = "JSONDecodeError"
            /\ ret' = ret
    /\ pc' = "with_exit"
    /\ UNCHANGED <<argv, args, payload, url, client, requests, r, stdout, exit_status>>

\* line 27, leaving the with block: Client.__exit__ closes the client on the
\* return path and on every exception path, then the return or the exception
\* continues out of main.
ExitClientLeakOnError ==
    /\ pc = "with_exit"
    /\ client' = IF exc = "none" THEN "closed" ELSE client
    /\ pc' = IF exc = "none" THEN "l37" ELSE "crash"
    /\ UNCHANGED <<argv, args, payload, url, requests, r, exc, ret, stdout, exit_status>>

ExitClient ==
    /\ pc = "with_exit"
    /\ client' = "closed"
    /\ pc' = IF exc = "none" THEN "l37" ELSE "crash"
    /\ UNCHANGED <<argv, args, payload, url, requests, r, exc, ret, stdout, exit_status>>

\* ---- __main__ -----------------------------------------------------------------

\* line 37: pprint(main()), then the script ends and the interpreter exits 0.
Pprint ==
    /\ pc = "l37"
    /\ stdout' = Append(stdout, ret)
    /\ exit_status' = 0
    /\ pc' = "done"
    /\ UNCHANGED <<argv, args, payload, url, client, requests, r, exc, ret>>

\* lines 36-37: nothing catches the exception; the interpreter prints the
\* traceback to stderr and exits 1 without calling pprint.
Crash ==
    /\ pc = "crash"
    /\ exit_status' = 1
    /\ pc' = "done"
    /\ UNCHANGED <<argv, args, payload, url, client, requests, r, exc, ret, stdout>>

Next ==
    \/ BuildPayload
    \/ DefaultCommand
    \/ MatchCommand
    \/ EnterClient
    \/ Post
    \/ RaiseForStatus
    \/ ReturnJson
    \/ ExitClient
    \/ Pprint
    \/ Crash

Spec == Init /\ [][Next]_vars

\* ---- properties ------------------------------------------------------------

\* The two literals as the documentation states them.
DocRegisterUrl == "http://localhost:3001/api/auth/register"
DocLoginUrl == "http://localhost:3001/api/auth/login"
DocPayload == [email |-> "joeblackwaslike@me.com", password |-> "Prosperis123!"]

\* The invocation carries a sub-command (Python args[1]) ...
HasSubcommand == Len(argv) >= 2
\* ... and it is one of the two recognized values.
Recognized == HasSubcommand /\ argv[2] \in {"register", "login"}

\* The request went out and failed: the transport failed (no response was
\* bound) or the server answered with a 4xx/5xx status.
ConnectFailed == requests # <<>> /\ r = UnboundResponse
ErrorStatus == r # UnboundResponse /\ r.status_code >= 400
CallFailed == ConnectFailed \/ ErrorStatus

\* C1: invoked with no sub-command (argument vector empty or holding only the
\* program name), the run issues a single POST and it targets the login URL.
C1_NoSubcommandPostsToLogin ==
    (pc = "done" /\ Len(argv) <= 1) =>
        /\ Len(requests) = 1
        /\ requests[1].url = DocLoginUrl

\* C2: when args[1] is "register", every request issued targets the register
\* URL (never the login URL), whatever further arguments follow, and the
\* finished run has issued it.
C2_RegisterTargetsRegisterUrl ==
    (HasSubcommand /\ argv[2] = "register") =>
        /\ \A i \in DOMAIN requests :
              requests[i].method = "POST" /\ requests[i].url = DocRegisterUrl
        /\ pc = "done" => Len(requests) = 1

C2_Witness ==
    /\ pc = "done"
    /\ Len(argv) = 3
    /\ argv[2] = "register"
    /\ argv[3] = "login"
    /\ Len(requests) = 1
    /\ requests[1].url = DocRegisterUrl

\* C3: when args[1] is "login", every request issued targets the login URL
\* (never the register URL), and the finished run has issued it.
C3_LoginTargetsLoginUrl ==
    (HasSubcommand /\ argv[2] = "login") =>
        /\ \A i \in DOMAIN requests :
              requests[i].method = "POST" /\ requests[i].url = DocLoginUrl
        /\ pc = "done" => Len(requests) = 1

C3_Witness ==
    /\ pc = "done"
    /\ HasSubcommand
    /\ argv[2] = "login"
    /\ Len(requests) = 1
    /\ requests[1].url = DocLoginUrl

\* C4: every request issued carries exactly the fixed two-field payload,
\* independent of the sub-command, and the payload local keeps that value
\* from its construction on.
C4_BodyIsFixedPayload ==
    /\ \A i \in DOMAIN requests : requests[i].json = DocPayload
    /\ pc # "l13" => payload = DocPayload

C4_Witness ==
    /\ pc = "done"
    /\ HasSubcommand
    /\ argv[2] = "register"
    /\ Len(requests) = 1
    /\ requests[1].json = DocPayload

\* C5: when the server answers the POST with a 2xx status and a JSON body B,
\* the finished run has printed exactly the parsed B, once, and exited 0.
C5_SuccessPrintsBodyOnceExitsZero ==
    (/\ pc = "done"
     /\ requests # <<>>
     /\ r # UnboundResponse
     /\ r.status_code \div 100 = 2
     /\ IsJson(r.text)) =>
        /\ ret = JsonDecode(r.text)
        /\ stdout = <<ret>>
        /\ exit_status = 0
        /\ exc = "none"

C5_Witness ==
    /\ pc = "done"
    /\ Recognized
    /\ r = [status_code |-> 201, text |-> "{\"token\": \"abc\"}"]
    /\ stdout = << [type |-> "dict", items |-> << <<"token", "abc">> >>] >>
    /\ exit_status = 0

\* C6: when the HTTP call fails (4xx/5xx status or connection failure) the
\* error leaves main uncaught: nothing is ever printed, the formatter is
\* never reached, exactly one request was made, and the run ends with a
\* non-zero exit status.
C6_FailedCallPropagates ==
    CallFailed =>
        /\ stdout = <<>>
        /\ Len(requests) = 1
        /\ pc \notin {"l33", "l37"}
        /\ pc \in {"with_exit", "crash", "done"} =>
              exc \in {"ConnectError", "HTTPStatusError"}
        /\ pc = "done" => exit_status # 0

C6_Witness ==
    /\ pc = "done"
    /\ r = [status_code |-> 401, text |-> "{\"error\": \"bad credentials\"}"]
    /\ exc = "HTTPStatusError"
    /\ exit_status = 1
    /\ stdout = <<>>

C6_WitnessConnect ==
    /\ pc = "done"
    /\ ConnectFailed
    /\ exc = "ConnectError"
    /\ exit_status = 1

\* C7: when args[1] is neither "register" nor "login", nothing is ever
\* printed and the run ends in an error state with a non-zero exit status,
\* the error being the failed lookup of the url that no case bound.
C7_UnrecognizedCrashes ==
    (HasSubcommand /\ ~Recognized) =>
        /\ stdout = <<>>
        /\ pc # "l37"
        /\ pc = "done" => (exit_status # 0 /\ exc = "UnboundLocalError")

C7_Witness ==
    /\ pc = "done"
    /\ HasSubcommand
    /\ argv[2] = "reset"
    /\ exc = "UnboundLocalError"
    /\ exit_status = 1
    /\ stdout = <<>>

\* C8 (as stated): every finished run, for every argument vector, has
\* performed exactly one POST.
C8_ExactlyOnePostAlways ==
    pc = "done" => Len(requests) = 1

\* C8 (amended): no run performs more than one POST, and a finished run whose
\* args[1] is "register" or "login" has performed exactly one.
C8_AtMostOnePostExactlyOneIfRecognized ==
    /\ Len(requests) <= 1
    /\ (pc = "done" /\ Recognized) => Len(requests) = 1

C8_Witness ==
    /\ pc = "done"
    /\ Recognized
    /\ Len(requests) = 1
    /\ ConnectFailed

\* C9: the client is open exactly while the with block runs: it is acquired
\* before any request is sent, it is released on the return path and on every
\* exception path, and no finished run leaves it open.
C9_ClientScoped ==
    /\ requests # <<>> => client # "none"
    /\ pc \in {"l28", "l32", "l33", "with_exit"} => client = "open"
    /\ client = "open" => pc \in {"l28", "l32", "l33", "with_exit"}
    /\ pc = "done" => client # "open"
    /\ (pc = "done" /\ exc \in {"UnboundLocalError", "ConnectError",
                                "HTTPStatusError", "JSONDecodeError"})
          => client = "closed"

C9_Witness ==
    /\ pc = "done"
    /\ exc = "JSONDecodeError"
    /\ r.status_code = 200
    /\ Len(requests) = 1
    /\ client = "closed"

\* C10 (as stated): a client is acquired and a POST is sent only if args[1]
\* exists and is "register" or "login"; when the selection fails no client is
\* ever acquired and no request is sent; every request targets one of the two
\* fixed URLs.
C10_NoClientUnlessRecognized ==
    /\ (client # "none" \/ requests # <<>>) => Recognized
    /\ \A i \in DOMAIN requests : requests[i].url \in {DocRegisterUrl, DocLoginUrl}

\* C10 (amended): a POST is sent only if args[1] exists and is "register" or
\* "login", and it targets one of the two fixed URLs; when the selection fails
\* no request is sent; a client is acquired only if args[1] exists, so a run
\* with args[1] missing never acquires one.
C10_NoRequestUnlessRecognized ==
    /\ requests # <<>> => Recognized
    /\ client # "none" => HasSubcommand
    /\ \A i \in DOMAIN requests : requests[i].url \in {DocRegisterUrl, DocLoginUrl}
    /\ requests # <<>> => url \in {DocRegisterUrl, DocLoginUrl}

C10_Witness ==
    /\ pc = "done"
    /\ HasSubcommand
    /\ argv[2] = "reset"
    /\ client = "closed"
    /\ requests = <<>>

C10_WitnessMissing ==
    /\ pc = "done"
    /\ ~HasSubcommand
    /\ client = "none"
    /\ requests = <<>>

====
